---- MODULE Spec2Model ----
(***************************************************************************)
(* text-to-json-mcp: the rule-based gap analyzer (utils/gapAnalysis.js),   *)
(* the extraction / refinement engine (utils/promptProcessor.js) and the   *)
(* three hosts that dispatch to them (src/index.js, src/mcp-server-v2.js,  *)
(* cli.js).  JavaScript strings are TLA+ strings; the character at         *)
(* position i (1-based) of s is SubSeq(s, i, i).                           *)
(***************************************************************************)
EXTENDS Integers, Sequences, FiniteSets, TLC

VARIABLES
    pc,         \* "idle" | "pending" | "responded": position of the host
    request,    \* the call in flight: [host, method, hasParams, hasText, text]
    response,   \* what the handler resolved with (or how the CLI ended)
    coreCalls,  \* core functions the handler invoked for the call in flight
    probe,      \* [method, text] of a call whose first result is remembered
    probeSeen,  \* TRUE once the probe call has completed at least once
    probeResult \* the core result the probe call produced the first time

vars == <<pc, request, response, coreCalls, probe, probeSeen, probeResult>>

---------------------------------------------------------------------------
(* String primitives of the JavaScript runtime, as the code uses them.     *)

CharAt(s, i) == SubSeq(s, i, i)

UpperCaseLetters == "ABCDEFGHIJKLMNOPQRSTUVWXYZ"
LowerCaseLetters == "abcdefghijklmnopqrstuvwxyz"
Digits == "0123456789"
WhiteSpace == " \t\n\r"

\* the set of the characters of a string
CharsOf(class) == {CharAt(class, i) : i \in 1..Len(class)}

\* \w of a JavaScript regular expression: [A-Za-z0-9_]
WordChars ==
    CharsOf(UpperCaseLetters) \cup CharsOf(LowerCaseLetters)
        \cup CharsOf(Digits) \cup {"_"}

IsWordChar(c) == c \in WordChars

\* \s of a JavaScript regular expression (the ASCII part)
SpaceChars == CharsOf(WhiteSpace)

IsSpace(c) == c \in SpaceChars

LowerOf ==
    [c \in CharsOf(UpperCaseLetters) |->
        CharAt(LowerCaseLetters,
               CHOOSE i \in 1..26 : CharAt(UpperCaseLetters, i) = c)]

UpperOf ==
    [c \in CharsOf(LowerCaseLetters) |->
        CharAt(UpperCaseLetters,
               CHOOSE i \in 1..26 : CharAt(LowerCaseLetters, i) = c)]

LowerChar(c) == IF c \in DOMAIN LowerOf THEN LowerOf[c] ELSE c

UpperChar(c) == IF c \in DOMAIN UpperOf THEN UpperOf[c] ELSE c

\* String.prototype.toLowerCase: every character mapped, the two halves of
\* the string one after the other; a string without upper-case letters is
\* returned as it is
RECURSIVE LowerCased(_)
LowerCased(s) ==
    IF Len(s) = 0 THEN ""
    ELSE IF Len(s) = 1 THEN LowerChar(s)
    ELSE LET mid == Len(s) \div 2
         IN  LowerCased(SubSeq(s, 1, mid)) \o LowerCased(SubSeq(s, mid + 1, Len(s)))

toLowerCase(s) ==
    IF \A i \in 1..Len(s) : CharAt(s, i) \notin DOMAIN LowerOf THEN s
    ELSE LowerCased(s)

\* s has sub at position i (1-based)
HasAt(s, sub, i) ==
    /\ i >= 1
    /\ i + Len(sub) - 1 <= Len(s)
    /\ SubSeq(s, i, i + Len(sub) - 1) = sub

\* s has lit at position i when case is ignored (lit is lower case): how a
\* literal of a regular expression with flag i matches
HasAtIgnoreCase(s, lit, i) ==
    /\ i >= 1
    /\ i + Len(lit) - 1 <= Len(s)
    /\ LowerChar(CharAt(s, i)) = CharAt(lit, 1)
    /\ toLowerCase(SubSeq(s, i, i + Len(lit) - 1)) = lit

\* String.prototype.includes
includes(s, sub) == \E i \in 1..(Len(s) - Len(sub) + 1) : HasAt(s, sub, i)

\* String.prototype.startsWith
startsWith(s, sub) == HasAt(s, sub, 1)

\* 1-based position of the first occurrence of sub in s at or after from,
\* 0 when there is none
FirstAt(s, sub, from) ==
    LET last == Len(s) - Len(sub) + 1
    IN  IF \E i \in from..last : HasAt(s, sub, i)
        THEN CHOOSE i \in from..last :
                /\ HasAt(s, sub, i)
                /\ \A j \in from..(i - 1) : ~HasAt(s, sub, j)
        ELSE 0

\* String.prototype.split with a non-empty string separator (case-sensitive)
RECURSIVE split(_, _)
split(s, sep) ==
    LET i == FirstAt(s, sep, 1)
    IN  IF i = 0 THEN <<s>>
        ELSE <<SubSeq(s, 1, i - 1)>>
                 \o split(SubSeq(s, i + Len(sep), Len(s)), sep)

\* the first position at or after i whose character is not in the class
\* (a set of characters), Len(s) + 1 when there is none
FirstNotIn(s, class, i) ==
    CHOOSE j \in i..(Len(s) + 1) :
        /\ (j = Len(s) + 1 \/ CharAt(s, j) \notin class)
        /\ \A k \in i..(j - 1) : CharAt(s, k) \in class

\* the first position at or after i whose character is in the class,
\* Len(s) + 1 when there is none
FirstIn(s, class, i) ==
    CHOOSE j \in i..(Len(s) + 1) :
        /\ (j = Len(s) + 1 \/ CharAt(s, j) \in class)
        /\ \A k \in i..(j - 1) : CharAt(s, k) \notin class

\* String.prototype.split with a regular expression /[class]+/: the pieces
\* between the maximal runs of characters of the class.  A piece begins at
\* position 1 and after every maximal run, and extends to the next
\* character of the class; the pieces that begin in lo..hi, in order
PieceBeginsAt(s, class, b) ==
    \/ b = 1
    \/ /\ CharAt(s, b - 1) \in class
       /\ (b = Len(s) + 1 \/ CharAt(s, b) \notin class)

RECURSIVE PiecesIn(_, _, _, _)
PiecesIn(s, class, lo, hi) ==
    IF lo > hi THEN <<>>
    ELSE IF lo = hi
         THEN (IF PieceBeginsAt(s, class, lo)
               THEN <<SubSeq(s, lo, FirstIn(s, class, lo) - 1)>>
               ELSE <<>>)
    ELSE LET mid == (lo + hi) \div 2
         IN  PiecesIn(s, class, lo, mid) \o PiecesIn(s, class, mid + 1, hi)

splitRegExp(s, class) == PiecesIn(s, class, 1, Len(s) + 1)

SentenceEnds == CharsOf(".!?")

\* String.prototype.trim
RECURSIVE trimStart(_)
trimStart(s) ==
    IF s # "" /\ IsSpace(CharAt(s, 1)) THEN trimStart(SubSeq(s, 2, Len(s)))
    ELSE s

RECURSIVE trimEnd(_)
trimEnd(s) ==
    IF s # "" /\ IsSpace(CharAt(s, Len(s))) THEN trimEnd(SubSeq(s, 1, Len(s) - 1))
    ELSE s

trim(s) == trimEnd(trimStart(s))

\* the elements of seq at the positions of lo..hi that are in keep, in order
RECURSIVE PickIn(_, _, _, _)
PickIn(seq, keep, lo, hi) ==
    IF lo > hi THEN <<>>
    ELSE IF lo = hi THEN (IF lo \in keep THEN <<seq[lo]>> ELSE <<>>)
    ELSE LET mid == (lo + hi) \div 2
         IN  PickIn(seq, keep, lo, mid) \o PickIn(seq, keep, mid + 1, hi)

\* the concatenation of the sequences seqs[lo..hi] (the effect of a forEach
\* loop whose body pushes onto one array)
RECURSIVE FlattenIn(_, _, _)
FlattenIn(seqs, lo, hi) ==
    IF lo > hi THEN <<>>
    ELSE IF lo = hi THEN seqs[lo]
    ELSE LET mid == (lo + hi) \div 2
         IN  FlattenIn(seqs, lo, mid) \o FlattenIn(seqs, mid + 1, hi)

Flatten(seqs) == FlattenIn(seqs, 1, Len(seqs))

\* the pieces kept when they have any character at all, blanks included
Sentences_noTrim(text) ==
    LET pieces == splitRegExp(text, SentenceEnds)
    IN  PickIn(pieces,
               {i \in 1..Len(pieces) : Len(pieces[i]) > 0},
               1, Len(pieces))

\* text.split(/[.!?]+/).filter(s => s.trim().length > 0)
Sentences(text) ==
    LET pieces == splitRegExp(text, SentenceEnds)
    IN  PickIn(pieces,
               {i \in 1..Len(pieces) : Len(trim(pieces[i])) > 0},
               1, Len(pieces))

---------------------------------------------------------------------------
(* utils/gapAnalysis.js                                                    *)

CONTEXT_INDICATORS ==
    << "it", "this", "that", "they", "them", "those", "here", "there",
       "the system", "the app", "the website", "the platform" >>

AMBIGUITY_INDICATORS ==
    << "maybe", "possibly", "might", "could", "should", "would",
       "better", "best", "good", "nice", "pretty", "cool",
       "soon", "quickly", "fast", "efficient", "user-friendly" >>

OUTPUT_INDICATORS ==
    << "something", "stuff", "things", "data", "information",
       "report", "summary", "analysis", "results" >>

CONSTRAINT_INDICATORS ==
    << "any", "all", "every", "always", "never",
       "unlimited", "infinite", "maximum", "minimum" >>

\* the finding with a description that leaves the sentence number out
ContextGap_noSentence(indicator, index) ==
    [ category    |-> "missing_context",
      description |-> "Unclear reference to \"" \o indicator \o "\"",
      suggestion  |-> "Specify what \"" \o indicator \o "\" refers to",
      severity    |-> "medium" ]

\* the finding pushed by findMissingContext for an indicator in the
\* sentence with 0-based position index
ContextGap(indicator, index) ==
    [ category    |-> "missing_context",
      description |-> "Unclear reference to \"" \o indicator
                          \o "\" in sentence " \o ToString(index + 1),
      suggestion  |-> "Specify what \"" \o indicator \o "\" refers to",
      severity    |-> "medium" ]

\* the body of the inner forEach of findMissingContext
ContextGapsOf(sentence, index) ==
    LET lower == toLowerCase(sentence)
    IN  Flatten([ k \in 1..Len(CONTEXT_INDICATORS) |->
            LET indicator == CONTEXT_INDICATORS[k]
                wordsBefore == trim(split(sentence, indicator)[1])
            IN  IF /\ includes(lower, toLowerCase(indicator))
                   /\ Len(wordsBefore) < 10
                THEN <<ContextGap(indicator, index)>>
                ELSE <<>> ])

findMissingContext(text) ==
    LET sentences == Sentences(text)
    IN  Flatten([ i \in 1..Len(sentences) |-> ContextGapsOf(sentences[i], i - 1) ])

AmbiguityGap(indicator) ==
    [ category    |-> "ambiguous_requirement",
      description |-> "Vague requirement: \"" \o indicator \o "\"",
      suggestion  |-> "Replace \"" \o indicator
                          \o "\" with specific, measurable criteria",
      severity    |-> "high" ]

OutputGap(indicator) ==
    [ category    |-> "unclear_output",
      description |-> "Unclear output: \"" \o indicator \o "\"",
      suggestion  |-> "Specify the exact format, structure, and content of the \""
                          \o indicator \o "\"",
      severity    |-> "medium" ]

ConstraintGap(indicator) ==
    [ category    |-> "missing_constraints",
      description |-> "Missing constraint: \"" \o indicator \o "\"",
      suggestion  |-> "Specify limits, boundaries, or specific criteria for \""
                          \o indicator \o "\"",
      severity    |-> "medium" ]

\* the finding a whole-text rule pushes for an indicator
GapOf(category, indicator) ==
    CASE category = "ambiguous_requirement" -> AmbiguityGap(indicator)
      [] category = "unclear_output"        -> OutputGap(indicator)
      [] category = "missing_constraints"   -> ConstraintGap(indicator)

\* one finding pushed for every occurrence of the indicator in the text
IndicatorGaps_perOccurrence(text, indicators, category) ==
    LET lower == toLowerCase(text)
    IN  Flatten([ k \in 1..Len(indicators) |->
            LET found == {i \in 1..Len(lower) :
                             HasAt(lower, toLowerCase(indicators[k]), i)}
            IN  [ m \in 1..Cardinality(found) |->
                     GapOf(category, indicators[k]) ] ])

\* the loop shared by the three whole-text rules: one finding per indicator
\* that the lower-cased text includes
IndicatorGaps(text, indicators, category) ==
    LET lower == toLowerCase(text)
    IN  Flatten([ k \in 1..Len(indicators) |->
            IF includes(lower, toLowerCase(indicators[k]))
            THEN <<GapOf(category, indicators[k])>>
            ELSE <<>> ])

findAmbiguousRequirements(text) ==
    IndicatorGaps(text, AMBIGUITY_INDICATORS, "ambiguous_requirement")

\* findUnclearOutputs scanning the table of the next detector
findUnclearOutputs_wrongTable(text) ==
    IndicatorGaps(text, CONSTRAINT_INDICATORS, "unclear_output")

findUnclearOutputs(text) ==
    IndicatorGaps(text, OUTPUT_INDICATORS, "unclear_output")

findMissingConstraints(text) ==
    IndicatorGaps(text, CONSTRAINT_INDICATORS, "missing_constraints")

baseScore == 100
penaltyPerGap == 15
penaltyPerHighSeverity == 10

\* text.split(/\s+/).length
wordCount(text) == Len(splitRegExp(text, SpaceChars))

Max(a, b) == IF a >= b THEN a ELSE b
Min(a, b) == IF a <= b THEN a ELSE b

\* calculateClarityScore returning the score without Math.max(0, ...)
calculateClarityScore_noFloor(text, gaps) ==
    LET highSeverityGaps ==
            PickIn(gaps, {i \in 1..Len(gaps) : gaps[i].severity = "high"},
                   1, Len(gaps))
        score == baseScore
                   - Len(gaps) * penaltyPerGap
                   - Len(highSeverityGaps) * penaltyPerHighSeverity
                   + (IF wordCount(text) > 20 THEN 5 ELSE 0)
                   + (IF wordCount(text) > 50 THEN 10 ELSE 0)
    IN  Min(100, score)

\* calculateClarityScore returning the score without Math.min(100, ...)
calculateClarityScore_noCeiling(text, gaps) ==
    LET highSeverityGaps ==
            PickIn(gaps, {i \in 1..Len(gaps) : gaps[i].severity = "high"},
                   1, Len(gaps))
        score == baseScore
                   - Len(gaps) * penaltyPerGap
                   - Len(highSeverityGaps) * penaltyPerHighSeverity
                   + (IF wordCount(text) > 20 THEN 5 ELSE 0)
                   + (IF wordCount(text) > 50 THEN 10 ELSE 0)
    IN  Max(0, score)

calculateClarityScore(text, gaps) ==
    LET highSeverityGaps ==
            PickIn(gaps, {i \in 1..Len(gaps) : gaps[i].severity = "high"},
                   1, Len(gaps))
        score == baseScore
                   - Len(gaps) * penaltyPerGap
                   - Len(highSeverityGaps) * penaltyPerHighSeverity
                   + (IF wordCount(text) > 20 THEN 5 ELSE 0)
                   + (IF wordCount(text) > 50 THEN 10 ELSE 0)
    IN  Max(0, Min(100, score))

\* Array.prototype.findIndex on descriptions (1-based; every element that
\* is looked up is in the array)
findIndex(gaps, description) ==
    CHOOSE i \in 1..Len(gaps) :
        /\ gaps[i].description = description
        /\ \A j \in 1..(i - 1) : gaps[j].description # description

\* the de-duplication collecting into the array it reads: every finding is
\* pushed a second time instead of being compared with the ones before it
uniqueGaps_appending(gaps) == gaps \o gaps

\* gaps.filter((gap, index, self) => index === self.findIndex(...))
uniqueGaps(gaps) ==
    PickIn(gaps,
           {i \in 1..Len(gaps) : i = findIndex(gaps, gaps[i].description)},
           1, Len(gaps))

\* the four rules' findings, the whole-text rules ahead of the sentence rule
allGaps_reordered(text) ==
    findAmbiguousRequirements(text) \o findUnclearOutputs(text)
        \o findMissingConstraints(text) \o findMissingContext(text)

\* the four rules' findings, concatenated
allGaps(text) ==
    findMissingContext(text) \o findAmbiguousRequirements(text)
        \o findUnclearOutputs(text) \o findMissingConstraints(text)

analyzeTextForGaps(text) ==
    LET gaps == uniqueGaps(allGaps(text))
    IN  [ gaps |-> gaps,
          overall_clarity_score |-> calculateClarityScore(text, gaps) ]

Categories(gaps) == {gaps[i].category : i \in 1..Len(gaps)}

generateClaritySuggestions(gaps) ==
    (IF "missing_context" \in Categories(gaps)
        THEN <<"Add specific context and background information">> ELSE <<>>)
    \o (IF "ambiguous_requirement" \in Categories(gaps)
        THEN <<"Use specific, measurable criteria instead of subjective terms">>
        ELSE <<>>)
    \o (IF "unclear_output" \in Categories(gaps)
        THEN <<"Specify exact output format, structure, and content requirements">>
        ELSE <<>>)
    \o (IF "missing_constraints" \in Categories(gaps)
        THEN <<"Define clear boundaries, limits, and constraints">> ELSE <<>>)

---------------------------------------------------------------------------
(* Regular-expression matching, for the shapes the extraction rules use.   *)
(* All of them are case-insensitive (flag i).                              *)

\* the last position of the maximal run of characters of a class that
\* starts at position i (i - 1 when the character at i is not in the class)
RunEnd(s, i, class) == FirstNotIn(s, class, i) - 1

Smallest(S) == CHOOSE x \in S : \A y \in S : x <= y

\* a match of /(\w+)\s+keyword/i that starts at position i: the greedy \w+
\* takes the maximal run of word characters, \s+ the maximal run of spaces
MatchesWordBefore(s, keyword, i) ==
    LET j == RunEnd(s, i, WordChars)
        k == RunEnd(s, j + 1, SpaceChars)
    IN  /\ j >= i
        /\ k >= j + 1
        /\ HasAtIgnoreCase(s, keyword, k + 1)

\* text.match(/(\w+)\s+keyword/i): <<matches[1]>> of the leftmost match,
\* <<>> for null
matchWordBefore(text, keyword) ==
    LET starts == {i \in 1..Len(text) : MatchesWordBefore(text, keyword, i)}
    IN  IF starts = {} THEN <<>>
        ELSE LET i == Smallest(starts)
             IN  <<SubSeq(text, i, RunEnd(text, i, WordChars))>>

\* a match of /keyword\s+(\w+)/i that starts at position i; keyword may
\* itself be several literals separated by \s+ (given as a sequence):
\* 0 when there is none, else the position where the captured word starts
RECURSIVE WordAfterAt(_, _, _)
WordAfterAt(s, literals, i) ==
    IF literals = <<>>
    THEN (IF i <= Len(s) /\ IsWordChar(CharAt(s, i)) THEN i ELSE 0)
    ELSE LET lit == Head(literals)
             k == RunEnd(s, i + Len(lit), SpaceChars)
         IN  IF HasAtIgnoreCase(s, lit, i) /\ k >= i + Len(lit)
             THEN WordAfterAt(s, Tail(literals), k + 1)
             ELSE 0

\* [...text.matchAll(/keyword\s+(\w+)/gi)].map(m => m[1]), searching from
\* position from on; matches do not overlap
RECURSIVE matchAllWordsAfter(_, _, _)
matchAllWordsAfter(text, literals, from) ==
    LET starts == {i \in from..Len(text) : WordAfterAt(text, literals, i) # 0}
    IN  IF starts = {} THEN <<>>
        ELSE LET w == WordAfterAt(text, literals, Smallest(starts))
                 e == RunEnd(text, w, WordChars)
             IN  <<SubSeq(text, w, e)>> \o matchAllWordsAfter(text, literals, e + 1)

\* [...text.matchAll(/(\w+)\s+keyword/gi)].map(m => m[1]), from position from
RECURSIVE matchAllWordsBefore(_, _, _)
matchAllWordsBefore(text, keyword, from) ==
    LET starts == {i \in from..Len(text) : MatchesWordBefore(text, keyword, i)}
    IN  IF starts = {} THEN <<>>
        ELSE LET i == Smallest(starts)
                 j == RunEnd(text, i, WordChars)
                 k == RunEnd(text, j + 1, SpaceChars)
             IN  <<SubSeq(text, i, j)>>
                     \o matchAllWordsBefore(text, keyword, k + Len(keyword) + 1)

\* s.replace(/[()]/g, '')
RECURSIVE removeParens(_)
removeParens(s) ==
    IF s = "" THEN ""
    ELSE (IF CharAt(s, 1) \in {"(", ")"} THEN "" ELSE CharAt(s, 1))
             \o removeParens(SubSeq(s, 2, Len(s)))

\* arr[i] of JavaScript (i 0-based): <<arr[i]>>, or <<>> for undefined
At(arr, i) == IF i + 1 <= Len(arr) THEN <<arr[i + 1]>> ELSE <<>>

---------------------------------------------------------------------------
(* utils/promptProcessor.js                                                *)

actionVerbs ==
    << "generate", "create", "build", "make", "develop", "design", "implement",
       "write", "produce", "construct", "assemble", "compile", "organize" >>

\* sentences[0].trim() reads a property of undefined when the text has no
\* non-empty sentence
extractTaskThrows(text) == At(Sentences(text), 0) = <<>>

TypeErrorMessage == "Cannot read properties of undefined (reading 'trim')"

\* the loop over the verbs run for every sentence, not for the first only
extractTask_anySentence(text) ==
    LET sentences == Sentences(text)
        withVerb == {i \in 1..Len(sentences) :
                        \E k \in 1..Len(actionVerbs) :
                            startsWith(toLowerCase(trim(sentences[i])),
                                       toLowerCase(actionVerbs[k]))}
    IN  IF withVerb = {} THEN trim(sentences[1])
        ELSE trim(sentences[Smallest(withVerb)])

extractTask(text) ==
    LET firstSentence == trim(Sentences(text)[1])
        lower == toLowerCase(firstSentence)
    IN  IF \E k \in 1..Len(actionVerbs) :
              startsWith(lower, toLowerCase(actionVerbs[k]))
        THEN firstSentence
        ELSE firstSentence

intentIndicators ==
    << "to", "for", "so that", "in order to", "because", "since",
       "as", "while", "when", "if", "although" >>

DefaultIntent ==
    "To fulfill the specified requirements and deliver the requested output"

\* the (sentence, indicator) pairs at which extractIntent returns, as
\* positions <<i, k>> in the order the two loops visit them
IntentHits(sentences) ==
    LET lower == [i \in 1..Len(sentences) |-> toLowerCase(sentences[i])]
    IN  { p \in (1..Len(sentences)) \X (1..Len(intentIndicators)) :
            /\ includes(lower[p[1]], toLowerCase(intentIndicators[p[2]]))
            /\ Len(split(sentences[p[1]], intentIndicators[p[2]])) > 1 }

extractIntent(text) ==
    LET sentences == Sentences(text)
        hits == IntentHits(sentences)
    IN  IF hits = {} THEN DefaultIntent
        ELSE LET first == CHOOSE p \in hits : \A q \in hits :
                              \/ p[1] < q[1]
                              \/ (p[1] = q[1] /\ p[2] <= q[2])
             IN  trim(split(sentences[first[1]], intentIndicators[first[2]])[2])

dataKeywords == << "data", "information", "details", "specifications" >>
paramKeywords == << "parameters", "criteria", "requirements" >>

\* the generic inputs pushed whatever was found, as extractOptionalInputs
\* pushes its own
extractRequiredInputs_alwaysGeneric(text) ==
    Flatten([ k \in 1..Len(dataKeywords) |->
        LET matches == matchWordBefore(text, dataKeywords[k])
        IN  IF matches # <<>>
            THEN <<matches[1] \o " data/information">> ELSE <<>> ])
        \o Flatten([ k \in 1..Len(paramKeywords) |->
            LET matches == matchWordBefore(text, paramKeywords[k])
            IN  IF matches # <<>>
                THEN <<matches[1] \o " parameters/criteria">> ELSE <<>> ])
        \o <<"Input text or prompt", "Context or background information">>

extractRequiredInputs(text) ==
    LET required ==
            Flatten([ k \in 1..Len(dataKeywords) |->
                LET matches == matchWordBefore(text, dataKeywords[k])
                IN  IF matches # <<>>
                    THEN <<matches[1] \o " data/information">> ELSE <<>> ])
            \o Flatten([ k \in 1..Len(paramKeywords) |->
                LET matches == matchWordBefore(text, paramKeywords[k])
                IN  IF matches # <<>>
                    THEN <<matches[1] \o " parameters/criteria">> ELSE <<>> ])
    IN  IF Len(required) = 0
        THEN <<"Input text or prompt", "Context or background information">>
        ELSE required

extractOptionalInputs(text) ==
    matchAllWordsAfter(text, <<"optional">>, 1)
        \o matchAllWordsAfter(text, <<"if", "available">>, 1)
        \o matchAllWordsBefore(text, "(optional)", 1)
        \o <<"Additional context", "Preferences or style guidelines">>

constraintKeywords ==
    << "within", "limit", "maximum", "minimum", "only", "must", "should" >>

\* pattern.source of /keyword\s+(\w+)/gi
PatternSource(keyword) == keyword \o "\\s+(\\w+)"

\* the generic constraints pushed only when no pattern matched, as the
\* generic required inputs are
extractConstraints_fallbackOnly(text) ==
    LET found ==
            Flatten([ k \in 1..Len(constraintKeywords) |->
                LET words == matchAllWordsAfter(text, <<constraintKeywords[k]>>, 1)
                IN  [ m \in 1..Len(words) |->
                        removeParens(PatternSource(constraintKeywords[k]))
                            \o " " \o words[m] ] ])
    IN  IF Len(found) = 0
        THEN <<"Available time and resources", "Technical limitations">>
        ELSE found

extractConstraints(text) ==
    Flatten([ k \in 1..Len(constraintKeywords) |->
        LET words == matchAllWordsAfter(text, <<constraintKeywords[k]>>, 1)
        IN  [ m \in 1..Len(words) |->
                removeParens(PatternSource(constraintKeywords[k]))
                    \o " " \o words[m] ] ])
        \o <<"Available time and resources", "Technical limitations">>

formatKeywords == << "format", "file", "output" >>

outputTypes ==
    << "report", "summary", "analysis", "list", "catalog", "database",
       "dashboard", "interface", "document", "presentation" >>

\* formatPatterns.forEach: every pattern that matches assigns outputs.format
RECURSIVE FormatAfter(_, _, _)
FormatAfter(text, format, k) ==
    IF k > Len(formatKeywords) THEN format
    ELSE LET matches == matchWordBefore(text, formatKeywords[k])
         IN  FormatAfter(text,
                         IF matches # <<>> THEN matches[1] ELSE format,
                         k + 1)

\* the output type kept as written in outputTypes
Capitalize_asIs(type) == type

\* type.charAt(0).toUpperCase() + type.slice(1)
Capitalize(type) == UpperChar(CharAt(type, 1)) \o SubSeq(type, 2, Len(type))

extractOutputs(text) ==
    LET lower == toLowerCase(text)
        found == {k \in 1..Len(outputTypes) :
                     includes(lower, toLowerCase(outputTypes[k]))}
        primary == IF found = {} THEN ""
                   ELSE Capitalize(outputTypes[Smallest(found)])
    IN  [ primary   |-> IF primary = "" THEN "Structured data or information"
                        ELSE primary,
          secondary |-> <<"Documentation or instructions",
                          "Quality assurance metrics">>,
          format    |-> FormatAfter(text, "JSON", 1) ]

\* the only property accesses of gapAnalysis.js on a value that may be
\* undefined: sentence.split(indicator)[0].trim()
analyzeTextForGapsThrows(text) ==
    LET sentences == Sentences(text)
    IN  \E i \in 1..Len(sentences) : \E k \in 1..Len(CONTEXT_INDICATORS) :
            At(split(sentences[i], CONTEXT_INDICATORS[k]), 0) = <<>>

\* the PromptRecord built inside the try block
PromptRecord(text) ==
    [ task    |-> extractTask(text),
      intent  |-> extractIntent(text),
      inputs  |-> [ required    |-> extractRequiredInputs(text),
                    optional    |-> extractOptionalInputs(text),
                    constraints |-> extractConstraints(text) ],
      outputs |-> extractOutputs(text),
      clarity_gaps |->
          LET gaps == analyzeTextForGaps(text).gaps
          IN  [ i \in 1..Len(gaps) |-> gaps[i].description ] ]

\* the try block of convertPromptToJson: the record it builds, or the
\* exception it catches
TryExtract(text) ==
    IF extractTaskThrows(text) \/ analyzeTextForGapsThrows(text)
    THEN [ threw |-> TRUE, message |-> TypeErrorMessage ]
    ELSE [ threw |-> FALSE, result |-> PromptRecord(text) ]

\* the catch block returning the failure without its processing time
ConvertReturn_bareFailure(tried, elapsed) ==
    IF tried.threw
    THEN [ success |-> FALSE,
           error   |-> tried.message ]
    ELSE [ success |-> TRUE,
           data    |-> tried.result,
           processing_time_ms |-> elapsed ]

\* the elapsed time stored in the prompt record as well
ConvertReturn_timeInData(tried, elapsed) ==
    IF tried.threw
    THEN [ success |-> FALSE,
           error   |-> tried.message,
           processing_time_ms |-> elapsed ]
    ELSE [ success |-> TRUE,
           data    |-> [ task |-> tried.result.task,
                         intent |-> tried.result.intent,
                         inputs |-> tried.result.inputs,
                         outputs |-> tried.result.outputs,
                         clarity_gaps |-> tried.result.clarity_gaps,
                         processing_time_ms |-> elapsed ],
           processing_time_ms |-> elapsed ]

\* the object convertPromptToJson returns after the try block, given the
\* time that passed between its two readings of Date.now()
ConvertReturn(tried, elapsed) ==
    IF tried.threw
    THEN [ success |-> FALSE,
           error   |-> tried.message,
           processing_time_ms |-> elapsed ]
    ELSE [ success |-> TRUE,
           data    |-> tried.result,
           processing_time_ms |-> elapsed ]

convertPromptToJson(text, elapsed) == ConvertReturn(TryExtract(text), elapsed)

SubjectiveTerms == << "good", "better", "best", "nice", "pretty", "cool" >>

\* /\b(good|better|best|nice|pretty|cool)\b/i matches at position i: the
\* length of the match, 0 when there is none
SubjectiveAt(s, i) ==
    LET fits == {k \in 1..Len(SubjectiveTerms) :
                    /\ HasAtIgnoreCase(s, SubjectiveTerms[k], i)
                    /\ (i = 1 \/ ~IsWordChar(CharAt(s, i - 1)))
                    /\ LET e == i + Len(SubjectiveTerms[k])
                       IN  e > Len(s) \/ ~IsWordChar(CharAt(s, e))}
    IN  IF fits = {} THEN 0 ELSE Len(SubjectiveTerms[Smallest(fits)])

\* s.replace(/\b(good|better|best|nice|pretty|cool)\b/gi,
\*           'specific and measurable'), from position i on: the text up to
\* the next match, the replacement, and the rest after the match
RECURSIVE replaceSubjective(_, _)
replaceSubjective(s, i) ==
    LET matches == {m \in i..Len(s) : SubjectiveAt(s, m) > 0}
    IN  IF matches = {} THEN SubSeq(s, i, Len(s))
        ELSE LET m == Smallest(matches)
             IN  SubSeq(s, i, m - 1) \o "specific and measurable"
                     \o replaceSubjective(s, m + SubjectiveAt(s, m))

ContextPrefix == "Context: This request is for [specify context]. "
OutputSuffix ==
    " The output should be in [specific format] with [specific structure] and include [specific content]."
ConstraintsSuffix ==
    " Constraints: [specify time limits, resource constraints, technical limitations]."

\* the four gated steps of refinePrompt, in program order: the category
\* that gates the step and the improvement it records
RefineSteps ==
    << [ category |-> "missing_context", type |-> "clarity",
         description |-> "Added context section" ],
       [ category |-> "ambiguous_requirement", type |-> "specificity",
         description |-> "Replaced subjective terms with objective criteria" ],
       [ category |-> "unclear_output", type |-> "structure",
         description |-> "Added specific output requirements" ],
       [ category |-> "missing_constraints", type |-> "completeness",
         description |-> "Added constraints section" ] >>

\* the assignment to refinedText in step k
Transform(k, refinedText) ==
    CASE k = 1 -> ContextPrefix \o refinedText
      [] k = 2 -> replaceSubjective(refinedText, 1)
      [] k = 3 -> refinedText \o OutputSuffix
      [] k = 4 -> refinedText \o ConstraintsSuffix

\* before read after refinedText was reassigned
Improve_beforeReadLate(k, state, after) ==
    [ refinedText  |-> after,
      improvements |-> Append(state.improvements,
                              [ type        |-> RefineSteps[k].type,
                                description |-> RefineSteps[k].description,
                                before      |-> after,
                                after       |-> after ]) ]

\* step k when its gate is open: refinedText is reassigned and one
\* improvement is pushed with the text before and after this step
Improve(k, state, after) ==
    [ refinedText  |-> after,
      improvements |-> Append(state.improvements,
                              [ type        |-> RefineSteps[k].type,
                                description |-> RefineSteps[k].description,
                                before      |-> state.refinedText,
                                after       |-> after ]) ]

\* the gate written with every() in place of some()
StepFires_every(k, gaps) ==
    \A i \in 1..Len(gaps) : gaps[i].category = RefineSteps[k].category

\* the gate of step k: gapAnalysis.gaps.some(gap => gap.category === ...)
StepFires(k, gaps) == RefineSteps[k].category \in Categories(gaps)

\* the steps applied in the opposite order: constraints first, context last
RECURSIVE RefineFrom_reversed(_, _, _)
RefineFrom_reversed(k, state, gaps) ==
    IF k > Len(RefineSteps) THEN state
    ELSE LET step == Len(RefineSteps) + 1 - k
         IN  RefineFrom_reversed(k + 1,
                    IF StepFires(step, gaps)
                    THEN Improve(step, state, Transform(step, state.refinedText))
                    ELSE state,
                    gaps)

\* steps k..4 applied to state = [refinedText, improvements]
RECURSIVE RefineFrom(_, _, _)
RefineFrom(k, state, gaps) ==
    IF k > Len(RefineSteps) THEN state
    ELSE RefineFrom(k + 1,
                    IF StepFires(k, gaps)
                    THEN Improve(k, state, Transform(k, state.refinedText))
                    ELSE state,
                    gaps)

\* the object refinePrompt returns, from the final state of the steps
RefineResult(text, state) ==
    [ success         |-> TRUE,
      original_prompt |-> text,
      refined_prompt  |-> state.refinedText,
      improvements    |-> state.improvements ]

refinePrompt(text) ==
    RefineResult(text,
                 RefineFrom(1, [refinedText |-> text, improvements |-> <<>>],
                            analyzeTextForGaps(text).gaps))

---------------------------------------------------------------------------
(* Inputs.                                                                 *)

MaxTokens == 2      \* pieces of the vocabulary in a composed text
MaxFiller == 11     \* filler phrases appended to a base text
MaxElapsed == 1     \* milliseconds between the two readings of Date.now()

Vocabulary ==
    << "Make", " something good", " should", ".", " ", "It",
       " any cool data", "goods" >>

\* the texts made of at most n pieces of the vocabulary
RECURSIVE Compositions(_)
Compositions(n) ==
    IF n = 0 THEN {""}
    ELSE LET shorter == Compositions(n - 1)
         IN  shorter \cup {t \o Vocabulary[k] :
                              t \in shorter, k \in 1..Len(Vocabulary)}

RECURSIVE Repeat(_, _)
Repeat(s, n) ==
    IF n = 0 THEN ""
    ELSE IF n = 1 THEN s
    ELSE Repeat(s, n \div 2) \o Repeat(s, n - (n \div 2))

\* texts long enough for the word-count bonuses of the clarity score: a
\* base of one or of five words (one of them with a leading blank and one
\* finding) followed by phrases of five words
Filler == " ok ok ok ok ok"

LongTexts ==
    {base \o Repeat(Filler, n) :
        base \in {"Run", "Run the long batch job", " Run any long batch job"},
        n \in 0..MaxFiller}

\* the texts of the documented examples and scenarios, and further samples
SampleTexts ==
    { "Make something good",
      "Generate a product catalog for corrugated boxes with pricing and specs",
      "Build a website",
      "Run the process.",
      "no matching patterns",
      "Maybe make something good, it should use any data",
      "It is broken now. This must change!",
      "Please help. Create a report.",
      "Go to the store to buy milk",
      "Save CSV format then log file",
      "should, must, within",
      "It should run and must stop within 5 minutes",
      "Make it good with any data",
      "Fix it now. Then ship it!" }

Texts == Compositions(MaxTokens) \cup LongTexts \cup SampleTexts

Methods == {"convertPromptToJson", "findClarityGaps", "refinePrompt"}
Commands == {"convert", "gaps", "refine"}

\* a tool call: request.params may be missing, and so may params.text
ServerRequests(texts) ==
    [host : {"index", "v2"}, method : Methods,
     hasParams : {FALSE}, hasText : {FALSE}, text : {""}]
    \cup [host : {"index", "v2"}, method : Methods,
          hasParams : {TRUE}, hasText : {FALSE}, text : {""}]
    \cup [host : {"index", "v2"}, method : Methods,
          hasParams : {TRUE}, hasText : {TRUE}, text : texts]

\* a command line: `<command>` alone, or `<command> <text...>`
CliRequests(texts) ==
    [host : {"cli"}, method : Commands,
     hasParams : {TRUE}, hasText : {FALSE}, text : {""}]
    \cup [host : {"cli"}, method : Commands,
          hasParams : {TRUE}, hasText : {TRUE}, text : texts]

Requests == ServerRequests(Texts) \cup CliRequests(Texts)

NoRequest == [host |-> "none"]
NoResponse == [kind |-> "none"]

---------------------------------------------------------------------------
(* schema.js                                                               *)

\* TextInputSchema without .min(1)
TextInputSchemaAccepts_anyString(req) ==
    req.hasParams /\ req.hasText

\* TextInputSchema.parse(request.params): z.object({text: z.string().min(1)})
TextInputSchemaAccepts(req) ==
    req.hasParams /\ req.hasText /\ Len(req.text) >= 1

\* the message of the ZodError that TextInputSchema.parse throws
TextInputSchemaError(req) ==
    IF req.hasParams /\ req.hasText THEN "Text input cannot be empty"
    ELSE "Required"

GapCategories ==
    {"missing_context", "ambiguous_requirement", "unclear_output",
     "missing_constraints"}
Severities == {"low", "medium", "high"}
ImprovementTypes == {"clarity", "specificity", "structure", "completeness"}

\* ClarityGapsResponseSchema.parse(result) does not throw
ClarityGapsResponseSchemaAccepts(result) ==
    /\ result.success \in BOOLEAN
    /\ \A i \in 1..Len(result.gaps) :
          /\ result.gaps[i].category \in GapCategories
          /\ result.gaps[i].severity \in Severities
    /\ result.overall_clarity_score >= 0
    /\ result.overall_clarity_score <= 100

\* ConvertPromptResponseSchema.parse(result) does not throw: data and error
\* are optional, success and processing_time_ms required
ConvertPromptResponseSchemaAccepts(result) ==
    /\ {"success", "processing_time_ms"} \subseteq DOMAIN result
    /\ result.success \in BOOLEAN
    /\ "data" \in DOMAIN result =>
          {"task", "intent", "inputs", "outputs", "clarity_gaps"}
              \subseteq DOMAIN result.data

\* RefinePromptResponseSchema.parse(result) does not throw
RefinePromptResponseSchemaAccepts(result) ==
    /\ result.success \in BOOLEAN
    /\ \A i \in 1..Len(result.improvements) :
          result.improvements[i].type \in ImprovementTypes

---------------------------------------------------------------------------
(* The hosts.  A call arrives (Receive), its handler runs to completion in *)
(* one step (the handlers contain no await), and the reply leaves (Reply). *)

Resolved(body) == [kind |-> "resolved", body |-> body]

\* process.exit(1) after console.error(stderr)
Exit1(stderr) == [kind |-> "exit", code |-> 1, stderr |-> stderr]

\* console.log(JSON.stringify(result, null, 2)) and a normal end
Printed(result) == [kind |-> "exit", code |-> 0, stdout |-> result]

Pending(host, method) ==
    /\ pc = "pending"
    /\ request.host = host
    /\ request.method = method

Respond(resp, calls) ==
    /\ pc' = "responded"
    /\ response' = resp
    /\ coreCalls' = calls
    /\ UNCHANGED <<request, probe, probeSeen, probeResult>>

\* refinePrompt (and the gaps handlers) call analyzeTextForGaps outside
\* any try block of their own
refinePromptThrows(text) == analyzeTextForGapsThrows(text)

\* src/index.js: the schema-validating server
\* (the extraction does not depend on the clock: it is evaluated once
\* for all the elapsed times)
IndexConvertPromptToJson ==
    /\ Pending("index", "convertPromptToJson")
    /\ IF ~TextInputSchemaAccepts(request)
       THEN Respond(Resolved([success |-> FALSE,
                              error |-> TextInputSchemaError(request),
                              processing_time_ms |-> 0]), <<>>)
       ELSE LET tried == TryExtract(request.text)
            IN  \E elapsed \in 0..MaxElapsed :
                  LET result == ConvertReturn(tried, elapsed)
                  IN  IF ConvertPromptResponseSchemaAccepts(result)
                      THEN Respond(Resolved(result), <<"convertPromptToJson">>)
                      ELSE Respond(Resolved([success |-> FALSE,
                                             error |-> "Invalid response",
                                             processing_time_ms |-> 0]),
                                   <<"convertPromptToJson">>)

IndexFindClarityGaps ==
    /\ Pending("index", "findClarityGaps")
    /\ LET failure == [success |-> FALSE, gaps |-> <<>>,
                       overall_clarity_score |-> 0]
       IN  IF ~TextInputSchemaAccepts(request)
           THEN Respond(Resolved(failure), <<>>)
           ELSE IF analyzeTextForGapsThrows(request.text)
           THEN Respond(Resolved(failure), <<"analyzeTextForGaps">>)
           ELSE LET gapAnalysis == analyzeTextForGaps(request.text)
                    result == [success |-> TRUE,
                               gaps |-> gapAnalysis.gaps,
                               overall_clarity_score |->
                                   gapAnalysis.overall_clarity_score]
                IN  IF ClarityGapsResponseSchemaAccepts(result)
                    THEN Respond(Resolved(result), <<"analyzeTextForGaps">>)
                    ELSE Respond(Resolved(failure), <<"analyzeTextForGaps">>)

\* the catch block reads request.params.text: with no params it throws
\* again, and the handler's promise rejects
IndexRefinePrompt ==
    /\ Pending("index", "refinePrompt")
    /\ LET failure == [success |-> FALSE,
                       original_prompt |-> request.text,
                       refined_prompt |-> "",
                       improvements |-> <<>>]
       IN  IF ~request.hasParams
           THEN Respond([kind |-> "rejected",
                         error |-> "Cannot read properties of undefined (reading 'text')"],
                        <<>>)
           ELSE IF ~TextInputSchemaAccepts(request)
           THEN Respond(Resolved(failure), <<>>)
           ELSE IF refinePromptThrows(request.text)
           THEN Respond(Resolved(failure), <<"refinePrompt">>)
           ELSE LET result == refinePrompt(request.text)
                IN  IF RefinePromptResponseSchemaAccepts(result)
                    THEN Respond(Resolved(result), <<"refinePrompt">>)
                    ELSE Respond(Resolved(failure), <<"refinePrompt">>)

\* src/mcp-server-v2.js: the plain server.  `const { text } = request.params`
\* throws inside the try block when params is missing; !text is true for a
\* missing and for an empty text
V2Rejects(req) == ~req.hasText \/ req.text = ""

V2Failure(req) ==
    IF ~req.hasParams
    THEN [success |-> FALSE,
          error |-> "Cannot destructure property 'text' of 'request.params' as it is undefined."]
    ELSE [success |-> FALSE, error |-> "Text parameter is required"]

V2ConvertPromptToJson ==
    /\ Pending("v2", "convertPromptToJson")
    /\ IF ~request.hasParams \/ V2Rejects(request)
       THEN Respond(Resolved(V2Failure(request)), <<>>)
       ELSE LET tried == TryExtract(request.text)
            IN  \E elapsed \in 0..MaxElapsed :
                  Respond(Resolved(ConvertReturn(tried, elapsed)),
                          <<"convertPromptToJson">>)

V2FindClarityGaps ==
    /\ Pending("v2", "findClarityGaps")
    /\ IF ~request.hasParams \/ V2Rejects(request)
       THEN Respond(Resolved(V2Failure(request)), <<>>)
       ELSE IF analyzeTextForGapsThrows(request.text)
       THEN Respond(Resolved([success |-> FALSE, error |-> TypeErrorMessage]),
                    <<"analyzeTextForGaps">>)
       ELSE LET gapAnalysis == analyzeTextForGaps(request.text)
            IN  Respond(Resolved([success |-> TRUE,
                                  gaps |-> gapAnalysis.gaps,
                                  overall_clarity_score |->
                                      gapAnalysis.overall_clarity_score]),
                        <<"analyzeTextForGaps">>)

V2RefinePrompt ==
    /\ Pending("v2", "refinePrompt")
    /\ IF ~request.hasParams \/ V2Rejects(request)
       THEN Respond(Resolved(V2Failure(request)), <<>>)
       ELSE IF refinePromptThrows(request.text)
       THEN Respond(Resolved([success |-> FALSE, error |-> TypeErrorMessage]),
                    <<"refinePrompt">>)
       ELSE Respond(Resolved(refinePrompt(request.text)), <<"refinePrompt">>)

\* cli.js: main() exits when the command has no text argument; processText
\* exits when the text is empty or blank
CliRejects(req) == ~req.hasText \/ req.text = "" \/ Len(trim(req.text)) = 0

CliRejection(req) ==
    IF ~req.hasText THEN Exit1("Error: " \o req.method \o " requires text input")
    ELSE Exit1("Error: Text input is required")

\* the end of processText: a result with success === false exits with 1,
\* every other result is printed
CliFinish(result) ==
    IF "success" \in DOMAIN result /\ result.success = FALSE
    THEN Exit1("Error: " \o result.error)
    ELSE Printed(result)

CliConvert ==
    /\ Pending("cli", "convert")
    /\ IF CliRejects(request) THEN Respond(CliRejection(request), <<>>)
       ELSE LET tried == TryExtract(request.text)
            IN  \E elapsed \in 0..MaxElapsed :
                  Respond(CliFinish(ConvertReturn(tried, elapsed)),
                          <<"convertPromptToJson">>)

CliGaps ==
    /\ Pending("cli", "gaps")
    /\ IF CliRejects(request) THEN Respond(CliRejection(request), <<>>)
       ELSE IF analyzeTextForGapsThrows(request.text)
       THEN Respond(Exit1("Error processing text: " \o TypeErrorMessage),
                    <<"analyzeTextForGaps">>)
       ELSE Respond(CliFinish(analyzeTextForGaps(request.text)),
                    <<"analyzeTextForGaps">>)

CliRefine ==
    /\ Pending("cli", "refine")
    /\ IF CliRejects(request) THEN Respond(CliRejection(request), <<>>)
       ELSE IF refinePromptThrows(request.text)
       THEN Respond(Exit1("Error processing text: " \o TypeErrorMessage),
                    <<"refinePrompt">>)
       ELSE Respond(CliFinish(refinePrompt(request.text)), <<"refinePrompt">>)

Handle ==
    \/ IndexConvertPromptToJson
    \/ IndexFindClarityGaps
    \/ IndexRefinePrompt
    \/ V2ConvertPromptToJson
    \/ V2FindClarityGaps
    \/ V2RefinePrompt
    \/ CliConvert
    \/ CliGaps
    \/ CliRefine

\* a call arrives at an idle host
Receive ==
    /\ pc = "idle"
    /\ \E req \in Requests : request' = req
    /\ pc' = "pending"
    /\ UNCHANGED <<response, coreCalls, probe, probeSeen, probeResult>>

\* the reply leaves; nothing of the call remains
Reply ==
    /\ pc = "responded"
    /\ pc' = "idle"
    /\ request' = NoRequest
    /\ response' = NoResponse
    /\ coreCalls' = <<>>
    /\ UNCHANGED <<probe, probeSeen, probeResult>>

Init ==
    /\ pc = "idle"
    /\ request = NoRequest
    /\ response = NoResponse
    /\ coreCalls = <<>>
    /\ probe = NoRequest
    /\ probeSeen = FALSE
    /\ probeResult = NoResponse

Next == Receive \/ Handle \/ Reply

Spec == Init /\ [][Next]_vars

---------------------------------------------------------------------------
(* Repeated calls.  One call (the probe) is singled out; the first reply   *)
(* to it is remembered, so that later replies to the same call, after any  *)
(* other calls in between, can be compared with it.                        *)

ProbeTexts == {"Make something good", "It should.", " any cool data", "."}

ProbeRequests ==
    {req \in ServerRequests(ProbeTexts) \cup CliRequests(ProbeTexts) : req.hasText}

\* a record without its processing_time_ms field
StripTime(r) == [f \in (DOMAIN r) \ {"processing_time_ms"} |-> r[f]]

\* a response without the elapsed time it reports
WithoutTime(resp) ==
    IF resp.kind = "resolved"
    THEN [kind |-> "resolved", body |-> StripTime(resp.body)]
    ELSE IF resp.kind = "exit" /\ "stdout" \in DOMAIN resp
    THEN [kind |-> "exit", code |-> resp.code, stdout |-> StripTime(resp.stdout)]
    ELSE resp

InitRepeat ==
    /\ pc = "idle"
    /\ request = NoRequest
    /\ response = NoResponse
    /\ coreCalls = <<>>
    /\ probe \in ProbeRequests
    /\ probeSeen = FALSE
    /\ probeResult = NoResponse

ReceiveRepeat ==
    /\ pc = "idle"
    /\ \E req \in ProbeRequests : request' = req
    /\ pc' = "pending"
    /\ UNCHANGED <<response, coreCalls, probe, probeSeen, probeResult>>

\* the reply leaves; the first reply to the probe call is remembered
ReplyRepeat ==
    /\ pc = "responded"
    /\ pc' = "idle"
    /\ request' = NoRequest
    /\ response' = NoResponse
    /\ coreCalls' = <<>>
    /\ IF request = probe /\ ~probeSeen
       THEN /\ probeSeen' = TRUE
            /\ probeResult' = WithoutTime(response)
            /\ UNCHANGED probe
       ELSE UNCHANGED <<probe, probeSeen, probeResult>>

NextRepeat == ReceiveRepeat \/ Handle \/ ReplyRepeat

SpecRepeat == InitRepeat /\ [][NextRepeat]_vars

---------------------------------------------------------------------------
(* Properties.  A handled call is read off the state: the request, the     *)
(* core functions the handler invoked, and the response it produced.       *)

\* the result object a handled call delivered (the resolved value of a
\* server handler, the object the CLI printed)
Delivered ==
    IF response.kind = "resolved" THEN response.body
    ELSE IF response.kind = "exit" /\ response.code = 0 THEN response.stdout
    ELSE [success |-> FALSE]

\* a call was handled and its handler went through the named core function
Answered(core) == pc = "responded" /\ coreCalls = <<core>>

\* the handled call delivered the analysis of its text
GapsDelivered ==
    /\ Answered("analyzeTextForGaps")
    /\ {"gaps", "overall_clarity_score"} \subseteq DOMAIN Delivered

\* the handled call delivered a refinement of its text
RefinementDelivered ==
    /\ Answered("refinePrompt")
    /\ {"refined_prompt", "improvements"} \subseteq DOMAIN Delivered

\* C1: the clarity score of every delivered analysis is an integer from 0
\* to 100, whatever the text and however many findings it has.
C1_ScoreWithinRange ==
    GapsDelivered => Delivered.overall_clarity_score \in 0..100

\* an analysis whose penalties exceed the base score was delivered through
\* a host that does not validate the result
C1_Witness ==
    /\ GapsDelivered
    /\ request.host \in {"v2", "cli"}
    /\ baseScore + 15
         < Len(Delivered.gaps) * penaltyPerGap
           + Cardinality({i \in 1..Len(Delivered.gaps) :
                             Delivered.gaps[i].severity = "high"})
               * penaltyPerHighSeverity
    /\ Delivered.overall_clarity_score = 0

C3_ChangedIffImproved ==
    RefinementDelivered =>
        ((Delivered.refined_prompt # Delivered.original_prompt)
            <=> (Len(Delivered.improvements) > 0))

AllIndicators ==
    CONTEXT_INDICATORS \o AMBIGUITY_INDICATORS
        \o OUTPUT_INDICATORS \o CONSTRAINT_INDICATORS

\* the text contains no indicator of any of the four tables
MatchesNoIndicator(text) ==
    \A k \in 1..Len(AllIndicators) :
        ~includes(toLowerCase(text), toLowerCase(AllIndicators[k]))

\* C6: the analysis never fails (every call that reaches it delivers an
\* analysis), and a text matching no indicator of the four tables gets no
\* finding and a score of exactly 100, whatever its length.
C6_AnalysisTotalAndClean ==
    Answered("analyzeTextForGaps") =>
        /\ GapsDelivered
        /\ request.host # "cli" => Delivered.success = TRUE
        /\ MatchesNoIndicator(request.text) =>
              /\ Delivered.gaps = <<>>
              /\ Delivered.overall_clarity_score = 100

\* the analysis of a text of more than 50 words without any indicator was
\* delivered
C6_Witness ==
    /\ GapsDelivered
    /\ MatchesNoIndicator(request.text)
    /\ wordCount(request.text) > 50

PromptRecordFields == {"task", "intent", "inputs", "outputs", "clarity_gaps"}

\* C7: the conversion never throws.  Through the servers, every call that
\* reaches it resolves with its return value: a failure carries the
\* exception message and the processing time and no data, a success carries
\* a complete prompt record and the processing time and no error.
C7_ConvertFailsCleanly ==
    (Answered("convertPromptToJson") /\ request.host # "cli") =>
        /\ response.kind = "resolved"
        /\ IF Delivered.success
           THEN /\ DOMAIN Delivered = {"success", "data", "processing_time_ms"}
                /\ DOMAIN Delivered.data = PromptRecordFields
                /\ DOMAIN Delivered.data.inputs
                     = {"required", "optional", "constraints"}
                /\ DOMAIN Delivered.data.outputs
                     = {"primary", "secondary", "format"}
           ELSE /\ DOMAIN Delivered = {"success", "error", "processing_time_ms"}
                /\ Delivered.error = TypeErrorMessage
        /\ Delivered.processing_time_ms \in 0..MaxElapsed

\* a conversion whose extraction raised an exception was delivered
C7_Witness ==
    /\ Answered("convertPromptToJson")
    /\ request.host = "v2"
    /\ extractTaskThrows(request.text)
    /\ Delivered.success = FALSE

\* the handled request has no text, or an empty one
TextAbsent == ~request.hasParams \/ ~request.hasText \/ request.text = ""

\* the handler ended in a failure: a result with success false, a rejected
\* promise, or exit code 1
Failure ==
    \/ response.kind = "resolved" /\ response.body.success = FALSE
    \/ response.kind = "rejected"
    \/ response.kind = "exit" /\ response.code = 1

Reports(gaps, category, term) ==
    \E i \in 1..Len(gaps) :
        /\ gaps[i].category = category
        /\ includes(gaps[i].description, "\"" \o term \o "\"")

\* C9: the analysis of "Make something good" has an ambiguous_requirement
\* finding naming "good", an unclear_output finding naming "something",
\* and a score below 100.
C9_MakeSomethingGood ==
    (GapsDelivered /\ request.text = "Make something good") =>
        /\ Reports(Delivered.gaps, "ambiguous_requirement", "good")
        /\ Reports(Delivered.gaps, "unclear_output", "something")
        /\ Delivered.overall_clarity_score < 100

\* the plain server delivered the analysis of "Make something good"
C9_Witness ==
    /\ GapsDelivered
    /\ request.host = "v2"
    /\ request.text = "Make something good"
    /\ Len(Delivered.gaps) >= 2

CatalogSentence ==
    "Generate a product catalog for corrugated boxes with pricing and specs"

\* C10: the conversion of the catalog sentence has the whole sentence as
\* its task and "Catalog" as its primary output.
C10_CatalogScenario ==
    (Answered("convertPromptToJson") /\ request.text = CatalogSentence) =>
        /\ Delivered.success = TRUE
        /\ Delivered.data.task = CatalogSentence
        /\ Delivered.data.outputs.primary = "Catalog"

\* the conversion of the catalog sentence was delivered
C10_Witness ==
    /\ Answered("convertPromptToJson")
    /\ request.text = CatalogSentence
    /\ "data" \in DOMAIN Delivered

\* the conversion of the handled call returned a prompt record
ConversionDelivered ==
    /\ Answered("convertPromptToJson")
    /\ "data" \in DOMAIN Delivered

\* C11 (as stated): the conversion of the catalog sentence has the default
\* string as its intent, as in the documented example output.
C11_CatalogIntentIsDefault ==
    (ConversionDelivered /\ request.text = CatalogSentence) =>
        Delivered.data.intent = DefaultIntent

\* somewhere in the text a word character, then one or more blanks, then
\* the keyword (in any case): what /(\w+)\s+keyword/i looks for
WordBlankKeyword(text, keyword) ==
    \E j \in 3..Len(text) :
        /\ HasAtIgnoreCase(text, keyword, j)
        /\ IsSpace(CharAt(text, j - 1))
        /\ \E i \in 1..(j - 2) :
              /\ IsWordChar(CharAt(text, i))
              /\ \A m \in (i + 1)..(j - 1) : IsSpace(CharAt(text, m))

InputKeywords ==
    << "data", "information", "details", "specifications",
       "parameters", "criteria", "requirements" >>

MentionsInput(text) ==
    \E k \in 1..Len(InputKeywords) : WordBlankKeyword(text, InputKeywords[k])

GenericInputs == <<"Input text or prompt", "Context or background information">>

\* C12: the required inputs of a delivered conversion are never empty; they
\* are exactly the two generic strings when no input pattern matches the
\* text, and contain neither of them when one does.
C12_RequiredInputsFallback ==
    ConversionDelivered =>
        LET required == Delivered.data.inputs.required
        IN  /\ Len(required) >= 1
            /\ IF MentionsInput(request.text)
               THEN \A i \in 1..Len(required) :
                       /\ required[i] # GenericInputs[1]
                       /\ required[i] # GenericInputs[2]
               ELSE required = GenericInputs

\* the conversion of "Run the process.", which names no input, was delivered
C12_Witness ==
    /\ ConversionDelivered
    /\ request.text = "Run the process."
    /\ Delivered.data.inputs.required = GenericInputs

\* somewhere in the text the keyword (in any case), then one or more
\* blanks, then a word character: what /keyword\s+(\w+)/i looks for
KeywordBlankWord(text, keyword) ==
    \E i \in 1..Len(text) :
        /\ HasAtIgnoreCase(text, keyword, i)
        /\ \E j \in (i + Len(keyword) + 1)..Len(text) :
              /\ IsWordChar(CharAt(text, j))
              /\ \A m \in (i + Len(keyword))..(j - 1) : IsSpace(CharAt(text, m))

ConstraintWords ==
    << "within", "limit", "maximum", "minimum", "only", "must", "should" >>

StatesConstraint(text) ==
    \E k \in 1..Len(ConstraintWords) : KeywordBlankWord(text, ConstraintWords[k])

\* the text contains "should", "must" and "within"
ShouldMustWithin(text) ==
    /\ includes(toLowerCase(text), "should")
    /\ includes(toLowerCase(text), "must")
    /\ includes(toLowerCase(text), "within")

GenericConstraints == <<"Available time and resources", "Technical limitations">>

\* the list ends with the two generic constraints
EndsWithGeneric(constraints) ==
    /\ Len(constraints) >= 2
    /\ SubSeq(constraints, Len(constraints) - 1, Len(constraints))
         = GenericConstraints

\* C13 (as stated): the constraints of every delivered conversion end with
\* the two generic strings, and a text containing "should", "must" and
\* "within" has further, regex-derived entries before them.
C13_ShouldMustWithinDerived ==
    ConversionDelivered =>
        /\ EndsWithGeneric(Delivered.data.inputs.constraints)
        /\ ShouldMustWithin(request.text) =>
              Len(Delivered.data.inputs.constraints) > 2

\* C13 (amended): the constraints of every delivered conversion end with
\* the two generic strings, and there are further entries before them
\* exactly when a constraint keyword of the text is followed by blanks and
\* a word.
C13_ConstraintsEndGeneric ==
    ConversionDelivered =>
        /\ EndsWithGeneric(Delivered.data.inputs.constraints)
        /\ (Len(Delivered.data.inputs.constraints) > 2)
              <=> StatesConstraint(request.text)

\* the conversion of a text with "should", "must" and "within", each
\* followed by a word, was delivered with three derived constraints
C13_Witness ==
    /\ ConversionDelivered
    /\ ShouldMustWithin(request.text)
    /\ StatesConstraint(request.text)
    /\ Len(Delivered.data.inputs.constraints) = 5

\* the number of whitespace-delimited tokens of the text: the places where
\* a run of non-blank characters starts
Tokens(text) ==
    Cardinality({i \in 1..Len(text) :
                    /\ ~IsSpace(CharAt(text, i))
                    /\ (i = 1 \/ IsSpace(CharAt(text, i - 1)))})

LengthBonus(tokens) ==
    IF tokens > 50 THEN 15 ELSE IF tokens > 20 THEN 5 ELSE 0

HighFindings(gaps) ==
    Cardinality({i \in 1..Len(gaps) : gaps[i].severity = "high"})

Clamp(x, low, high) == IF x < low THEN low ELSE IF x > high THEN high ELSE x

\* C14 (as stated): the score of a delivered analysis is
\* clamp(100 - 15 n - 10 h + b, 0, 100), n the number of findings, h the
\* number of high ones, b the bonus for the number of whitespace-delimited
\* tokens of the text (0 up to 20, 5 from 21 to 50, 15 above).
C14_ScoreFormula ==
    GapsDelivered =>
        Delivered.overall_clarity_score
            = Clamp(100 - 15 * Len(Delivered.gaps)
                        - 10 * HighFindings(Delivered.gaps)
                        + LengthBonus(Tokens(request.text)),
                    0, 100)

\* the analysis has the missing_context finding for the indicator in
\* sentence i (counted from 1)
ReportsReference(gaps, indicator, i) ==
    \E g \in 1..Len(gaps) :
        /\ gaps[g].category = "missing_context"
        /\ gaps[g].description
             = "Unclear reference to \"" \o indicator
                 \o "\" in sentence " \o ToString(i)

\* the sentence contains the indicator, in any case, and fewer than 10
\* characters precede its first occurrence
EarlyReference(sentence, indicator) ==
    LET at == FirstAt(toLowerCase(sentence), indicator, 1)
    IN  at # 0 /\ at - 1 < 10

\* C15 (as stated): a delivered analysis has a missing_context finding for
\* sentence i and indicator k exactly when the sentence contains k, in any
\* case, with fewer than 10 characters before its first occurrence; so a
\* sentence starting with "It" or "This" has one.
C15_ContextCaseInsensitive ==
    GapsDelivered =>
        LET sentences == Sentences(request.text)
        IN  \A i \in 1..Len(sentences) : \A k \in 1..Len(CONTEXT_INDICATORS) :
                ReportsReference(Delivered.gaps, CONTEXT_INDICATORS[k], i)
                    <=> EarlyReference(sentences[i], CONTEXT_INDICATORS[k])

\* the sentence, trimmed, begins with an action verb, in any case
BeginsWithVerb(sentence) ==
    \E k \in 1..Len(actionVerbs) :
        startsWith(toLowerCase(trim(sentence)), actionVerbs[k])

\* C16 (as stated): the task of a delivered conversion is the first
\* sentence that begins with an action verb, and the first sentence only
\* when no sentence begins with one.
C16_TaskFirstVerbSentence ==
    ConversionDelivered =>
        LET sentences == Sentences(request.text)
            withVerb == {i \in 1..Len(sentences) : BeginsWithVerb(sentences[i])}
        IN  Delivered.data.task
              = trim(sentences[IF withVerb = {} THEN 1 ELSE Smallest(withVerb)])

\* the first non-empty sentence of the text, trimmed: from the first
\* character that is neither blank nor a terminator to the last non-blank
\* character before the next terminator
FirstSentenceTrimmed(text) ==
    LET first == FirstNotIn(text, SentenceEnds \cup SpaceChars, 1)
        stop  == FirstIn(text, SentenceEnds, first)
    IN  trim(SubSeq(text, first, stop - 1))

\* C16 (amended): the task of a delivered conversion is the first non-empty
\* sentence of the text, trimmed, whether or not it begins with an action
\* verb.
C16_TaskFirstSentence ==
    ConversionDelivered =>
        Delivered.data.task = FirstSentenceTrimmed(request.text)

\* the conversion of a text whose second sentence, not its first, begins
\* with an action verb was delivered
C16_Witness ==
    /\ ConversionDelivered
    /\ request.text = "Please help. Create a report."
    /\ Delivered.data.task = "Please help"

\* the whole remainder of the sentence after the first occurrence of the
\* connective, trimmed
RemainderAfter(sentence, connective) ==
    trim(SubSeq(sentence,
                FirstAt(sentence, connective, 1) + Len(connective),
                Len(sentence)))

\* the intent as the sentences and connectives determine it: the pairs
\* <<sentence, connective>> with the connective in the sentence, the first
\* of them in scanning order, and the remainder after it
ExpectedIntent(text) ==
    LET sentences == Sentences(text)
        found == { p \in (1..Len(sentences)) \X (1..Len(intentIndicators)) :
                      includes(sentences[p[1]], intentIndicators[p[2]]) }
    IN  IF found = {} THEN DefaultIntent
        ELSE LET first == CHOOSE p \in found : \A q \in found :
                              \/ p[1] < q[1]
                              \/ (p[1] = q[1] /\ p[2] <= q[2])
             IN  RemainderAfter(sentences[first[1]], intentIndicators[first[2]])

\* C17 (as stated): the intent of a delivered conversion is the whole
\* remainder, trimmed, of the first sentence with a connective after the
\* first occurrence of its first connective in list order, also when the
\* connective occurs again later; without any connective it is the default.
C17_IntentWholeRemainder ==
    ConversionDelivered =>
        Delivered.data.intent = ExpectedIntent(request.text)

FormatWords == << "format", "file", "output" >>

\* at position j one of "format", "file", "output" begins, in any case,
\* after a word and one or more blanks
FormatNamedAt(text, j) ==
    /\ \E k \in 1..Len(FormatWords) : HasAtIgnoreCase(text, FormatWords[k], j)
    /\ j >= 3
    /\ IsSpace(CharAt(text, j - 1))
    /\ \E e \in 1..(j - 2) :
          /\ IsWordChar(CharAt(text, e))
          /\ \A m \in (e + 1)..(j - 1) : IsSpace(CharAt(text, m))

\* the word that ends before the blanks before position j
WordBefore(text, j) ==
    LET e == CHOOSE e \in 1..(j - 2) :
                 /\ IsWordChar(CharAt(text, e))
                 /\ \A m \in (e + 1)..(j - 1) : IsSpace(CharAt(text, m))
        b == CHOOSE b \in 1..e :
                 /\ \A m \in b..e : IsWordChar(CharAt(text, m))
                 /\ (b = 1 \/ ~IsWordChar(CharAt(text, b - 1)))
    IN  SubSeq(text, b, e)

\* C18 (as stated): the format of a delivered conversion is "JSON" when the
\* text has no "<word> format", "<word> file" or "<word> output", and
\* otherwise the word of the first of these in the text, not of a later one.
C18_FormatFirstMatch ==
    ConversionDelivered =>
        LET named == {j \in 1..Len(request.text) : FormatNamedAt(request.text, j)}
        IN  Delivered.data.outputs.format
              = IF named = {} THEN "JSON"
                ELSE WordBefore(request.text, Smallest(named))

\* the four transformations in their fixed order: the category that gates
\* each and the type of the improvement it records
StepOrder ==
    << <<"missing_context", "clarity">>,
       <<"ambiguous_requirement", "specificity">>,
       <<"unclear_output", "structure">>,
       <<"missing_constraints", "completeness">> >>

\* the place of an improvement type in the fixed order, 0 for no place
TypeRank(type) ==
    IF \E k \in 1..Len(StepOrder) : StepOrder[k][2] = type
    THEN CHOOSE k \in 1..Len(StepOrder) : StepOrder[k][2] = type
    ELSE 0

SeverityOf(category) ==
    IF category = "ambiguous_requirement" THEN "high" ELSE "medium"

\* the findings of the list that quote the indicator
Quoting(gaps, indicator) ==
    {i \in 1..Len(gaps) : includes(gaps[i].description, "\"" \o indicator \o "\"")}

\* every indicator of the table is named by at most one finding of the list
OncePerIndicator(gaps, indicators) ==
    \A k \in 1..Len(indicators) : Cardinality(Quoting(gaps, indicators[k])) <= 1

FirstOccurrences(gaps) ==
    {i \in 1..Len(gaps) :
        \A j \in 1..(i - 1) : gaps[j].description # gaps[i].description}

\* the m-th smallest member of a set of positions
NthOf(positions, m) ==
    CHOOSE i \in positions : Cardinality({j \in positions : j < i}) = m - 1

\* the list is the given one cut down to the first occurrence of every
\* description, in the order of the given one
IsFirstOccurrenceListOf(list, gaps) ==
    /\ Len(list) = Cardinality(FirstOccurrences(gaps))
    /\ \A m \in 1..Len(list) : list[m] = gaps[NthOf(FirstOccurrences(gaps), m)]

C23_HandlersAlwaysResolve ==
    (pc = "responded" /\ request.host \in {"index", "v2"}) =>
        /\ response.kind = "resolved"
        /\ TextAbsent =>
              /\ response.body.success = FALSE
              /\ "error" \in DOMAIN response.body

\* C24 (as stated): through every host the delivered analysis has the
\* fields success, gaps and overall_clarity_score, so what the CLI prints
\* for `gaps` has the fields of the findClarityGaps response.
C24_GapsShapeSameInEveryHost ==
    GapsDelivered =>
        DOMAIN Delivered = {"success", "gaps", "overall_clarity_score"}

\* C25: the deduplication removes nothing: the findings of the four rules,
\* concatenated, already have pairwise distinct descriptions, and the
\* delivered gaps are that concatenation itself.
C25_DeduplicationRemovesNothing ==
    GapsDelivered =>
        LET raw == findMissingContext(request.text)
                       \o findAmbiguousRequirements(request.text)
                       \o findUnclearOutputs(request.text)
                       \o findMissingConstraints(request.text)
        IN  /\ \A i, j \in 1..Len(raw) :
                  raw[i].description = raw[j].description => i = j
            /\ Delivered.gaps = raw

\* an analysis was delivered in which the same indicator is reported for
\* two sentences
C25_Witness ==
    /\ GapsDelivered
    /\ request.text = "Fix it now. Then ship it!"
    /\ Len(Delivered.gaps) = 2
    /\ Delivered.gaps[1].description = "Unclear reference to \"it\" in sentence 1"
    /\ Delivered.gaps[2].description = "Unclear reference to \"it\" in sentence 2"

\* the text is made of sentence terminators and white space only
OnlyTerminatorsAndBlanks(text) ==
    \A i \in 1..Len(text) :
        CharAt(text, i) \in {".", "!", "?"} \/ IsSpace(CharAt(text, i))

\* C26: a conversion that was run fails exactly when its text is made of
\* '.', '!', '?' and white space only; every other text is converted
\* successfully, with a non-empty task and non-empty required, optional
\* and constraints lists.
C26_ConvertFailsOnlyWithoutSentence ==
    Answered("convertPromptToJson") =>
        /\ Delivered.success = FALSE <=> OnlyTerminatorsAndBlanks(request.text)
        /\ Delivered.success =>
              /\ Delivered.data.task # ""
              /\ Delivered.data.inputs.required # <<>>
              /\ Delivered.data.inputs.optional # <<>>
              /\ Delivered.data.inputs.constraints # <<>>

\* the conversion of a blank text was run and failed
C26_Witness ==
    /\ Answered("convertPromptToJson")
    /\ request.text = " "
    /\ response.kind = "resolved"
    /\ response.body.success = FALSE
    /\ response.body.error = TypeErrorMessage

\* C27 (as stated): the three hosts accept and reject the same texts: a
\* request that carries a text is passed to the core by the
\* schema-validating server, by the plain server and by the CLI alike, or
\* rejected by all three.
C27_HostsAcceptSameTexts ==
    (pc = "responded" /\ request.hasParams /\ request.hasText) =>
        /\ (coreCalls # <<>>) <=> TextInputSchemaAccepts(request)
        /\ (coreCalls # <<>>) <=> ~V2Rejects(request)
        /\ (coreCalls # <<>>) <=> ~CliRejects(request)
====
